---- MODULE Spec2Model ----
(***************************************************************************)
(* UPKGT: the dispatcher (src/main.rs), the eopkg backend (src/eopkg/src)  *)
(* and the rpm backend (src/rpm/main.rs), as state machines over one       *)
(* filesystem.                                                             *)
(*                                                                         *)
(* A path is the sequence of its components: /usr/bin/app is               *)
(* <<"usr", "bin", "app">> and / is <<>>.  A filesystem maps every path of *)
(* a fixed universe to a node: absent, a directory, or a regular file with *)
(* its content.  File contents are small integers.                         *)
(***************************************************************************)
EXTENDS Integers, Sequences, FiniteSets, TLC

\* ------------------------------------------------------------------ bounds

\* Entries of a files.xml document.
MaxFiles == 2
\* Members of a package's cpio payload.
MaxMembers == 2
\* Most arguments on the dispatcher's command line.
MaxArgs == 3
\* Most lines a backend child writes to its two pipes.
MaxLines == 3
\* Most lines written by a child that a run of the whole dispatcher spawns.
MaxChildLines == 1
\* File contents a package can carry (byte strings, abstracted).
Contents == {1, 2}

\* ------------------------------------------------------------------ paths

Root == <<>>

\* Member paths a package can carry, relative to the extraction root.
AppPath == <<"usr", "bin", "app">>
ReadmePath == <<"usr", "README">>
TraversalPath == <<"..", "..", "etc", "passwd">>
\* A member path that leaves the rpm staging directory and lands in /usr.
TargetTraversalPath == <<"..", "..", "usr", "README">>

\* The member paths of the cpio payloads of rpm packages.
MemberPaths == {AppPath, ReadmePath, TargetTraversalPath}

\* The member paths of the archives of eopkg packages.
ArchivePaths == {AppPath, ReadmePath, TraversalPath}

\* Paths a files.xml entry can declare.
ManifestPaths == {AppPath, ReadmePath}

Parent(p) == SubSeq(p, 1, Len(p) - 1)

\* The proper ancestors of p, the root excluded.
Ancestors(p) == {SubSeq(p, 1, k) : k \in 1..(Len(p) - 1)}

IsPrefix(d, p) == Len(d) <= Len(p) /\ SubSeq(p, 1, Len(d)) = d

\* Path::join followed by the kernel's resolution of "..": the parent of the
\* root is the root.
RECURSIVE Resolve(_, _)
Resolve(base, rel) ==
    IF rel = <<>> THEN base
    ELSE IF Head(rel) = ".."
         THEN Resolve(IF base = <<>> THEN <<>> ELSE Parent(base), Tail(rel))
         ELSE Resolve(Append(base, Head(rel)), Tail(rel))

\* ------------------------------------------------------------------ nodes

Absent == [kind |-> "absent", data |-> 0]
Dir == [kind |-> "dir", data |-> 0]
RegFile(c) == [kind |-> "file", data |-> c]

\* rpm: extract_dir and target_dir of install_package.
ExtractDir == <<"tmp", "rpm_extract">>
TargetDir == <<"usr">>
\* rpm: install_dir, the staged usr/ directory.
InstallDir == Append(ExtractDir, "usr")

\* The paths of the model's filesystem: wherever a member can land when it is
\* extracted below extract_dir or copied below /, and their ancestors.
LeafPaths == {Resolve(b, m) : b \in {Root, ExtractDir}, m \in MemberPaths \cup ArchivePaths}
AllPaths == LeafPaths \cup UNION {Ancestors(p) : p \in LeafPaths}
                      \cup {ExtractDir, TargetDir} \cup Ancestors(ExtractDir)

Exists(f, p) == p = Root \/ (p \in AllPaths /\ f[p].kind # "absent")
IsDir(f, p) == p = Root \/ (p \in AllPaths /\ f[p].kind = "dir")
IsFile(f, p) == p \in AllPaths /\ f[p].kind = "file"

\* fs::create_dir_all: every missing component of p becomes a directory; it
\* fails when a component exists and is not a directory.
CanCreateDirAll(f, p) == \A a \in Ancestors(p) \cup {p} : ~IsFile(f, a)
CreateDirAll(f, p) ==
    [q \in AllPaths |->
        IF q \in Ancestors(p) \cup {p} /\ ~Exists(f, q) THEN Dir ELSE f[q]]

\* The paths CreateDirAll(f, p) creates.
DirsCreated(f, p) == {q \in Ancestors(p) \cup {p} : ~Exists(f, q)}

\* Writing a regular file at p, its parent directories created as needed.
CanWriteFile(f, p) == CanCreateDirAll(f, Parent(p)) /\ ~IsDir(f, p)
WriteFile(f, p, c) == [CreateDirAll(f, Parent(p)) EXCEPT ![p] = RegFile(c)]

\* fs::remove_dir_all: p and everything beneath it.
RemoveDirAll(f, p) == [q \in AllPaths |-> IF IsPrefix(p, q) THEN Absent ELSE f[q]]

\* What a failing fs::remove_dir_all(p) can leave: it deletes entry by entry,
\* a directory after its content, and returns at the first error, so some of
\* the tree is gone, never a directory that still has content, never p.
PartlyRemoved(f, p) ==
    {[q \in AllPaths |-> IF q \in gone THEN Absent ELSE f[q]] :
        gone \in {g \in SUBSET {q \in AllPaths : IsPrefix(p, q) /\ q # p /\ Exists(f, q)} :
                    \A a \in g : \A q \in AllPaths :
                        (IsPrefix(a, q) /\ Exists(f, q)) => q \in g}}

\* The file fs::copy leaves when it fails after creating its destination.
EmptyFile == RegFile(0)

\* The direct children of directory d that exist.
Children(f, d) == {q \in AllPaths : q # Root /\ Parent(q) = d /\ Exists(f, q)}


\* ------------------------------------------------------------------ bundles

\* Sha1::digest followed by format!("{:x}"): the lowercase hex digest of a
\* content (the first eight digits of the SHA-1 of the one-byte files "1" and "2",
\* and of the empty file).
Sha1Hex(c) == IF c = 1 THEN "356a192b" ELSE IF c = 2 THEN "da4b9237" ELSE "da39a3ee"

Hashes == {Sha1Hex(c) : c \in Contents}

\* The elements serde requires of metadata.xml and of one File of files.xml.
MetadataFields == {"Name", "Summary", "Description", "Architecture"}
FileFields == {"Path", "Type", "Size", "Uid", "Gid", "Mode", "Hash"}

\* One <File> element as written in files.xml: "present" is the set of its
\* child elements.
FileDocs ==
    [Path : ManifestPaths, Hash : Hashes, present : {FileFields}]
    \cup {[Path |-> AppPath, Hash |-> Sha1Hex(1), present |-> FileFields \ {f}] :
             f \in {"Path", "Hash", "Mode"}}

\* One member of a cpio payload.
Members == [path : MemberPaths, data : Contents]

SeqsUpTo(S, n) == UNION {[1..k -> S] : k \in 0..n}

\* No two entries of a files.xml, and no two members of a payload, have the
\* same path.
DistinctDocs(s) == \A j, k \in 1..Len(s) : j # k => s[j].Path # s[k].Path
DistinctMembers(s) == \A j, k \in 1..Len(s) : j # k => s[j].path # s[k].path

\* files.xml documents: distinct paths, at most one incomplete entry.
FilesDocs ==
    {s \in SeqsUpTo(FileDocs, MaxFiles) :
        /\ DistinctDocs(s)
        /\ Cardinality({j \in 1..Len(s) : s[j].present # FileFields}) <= 1}

\* cpio payloads of rpm packages: the files of one package build, all with
\* that build's content.
Payloads ==
    {s \in SeqsUpTo(Members, MaxMembers) :
        /\ DistinctMembers(s)
        /\ \A j, k \in 1..Len(s) : s[j].data = s[k].data}

\* The members of an install.tar.xz: the files of one package build, all with
\* that build's content.
Archives ==
    {s \in SeqsUpTo([path : ArchivePaths, data : Contents], MaxMembers) :
        /\ DistinctMembers(s)
        /\ \A j, k \in 1..Len(s) : s[j].data = s[k].data}

\* An eopkg package directory: metadata.xml, files.xml, install.tar.xz.
Bundles ==
    {b \in [metadata : {MetadataFields, MetadataFields \ {"Name"}},
            files : FilesDocs,
            tarPresent : BOOLEAN,
            archive : Archives] :
        ~b.tarPresent => b.archive = <<>>}

\* ------------------------------------------------------------------ state

VARIABLES
    fs,        \* the filesystem: [AllPaths -> node]
    fs0,       \* the filesystem as it was when the running operation started
    pc,        \* the statement the running operation is at, or "idle"
    written,   \* paths the running operation created or wrote in fs
    stdout,    \* lines the running operation printed
    stderr,    \* lines the running operation printed to stderr
    bundle,    \* eopkg: the package directory being installed
    files,     \* eopkg: files.File as parsed
    i,         \* eopkg: index in files.File of the entry being installed
    archPos,   \* eopkg: how many members of the archive have been read
    verdict,   \* eopkg: per entry, the outcome of the hash comparison
    pkg,       \* rpm: the members of the package's cpio payload
    rerun,     \* rpm: the command repeats the one that just succeeded
    force,     \* rpm: the install subcommand's --force flag
    r2cOk,     \* rpm: whether the rpm2cpio child exited with success
    remaining, \* rpm: entries of install_dir the loop has yet to visit
    result,    \* rpm: what install_package returned: "Ok", the Err's message, or "panic"
    args,      \* dispatcher: the command line after the program's name
    dpc,       \* dispatcher: the statement main is at, or "idle"
    invoked,   \* dispatcher: the backend commands main has spawned, in order
    child,     \* dispatcher: the backend child spawned, or NoChild
    console,   \* dispatcher: the messages main printed itself
    found,     \* dispatcher: what which::which(eopkginst_path) returned, if called
    exitStatus, \* dispatcher: the process's exit status, -1 while it runs
    script,    \* process_output: the lines the child writes, in order
    wpos,      \* process_output: how many lines of script the child has written
    childPc,   \* process_output: "running", or "exited" once all its fds are closed
    pipe,      \* process_output: per stream, the lines in the pipe's buffer
    thread,    \* process_output: per stream, the state of its reader thread
    line,      \* process_output: per stream, the line its reader has read and not yet printed
    printed,   \* process_output: per stream, the lines the dispatcher printed
    ppc,       \* process_output: index of main's next step in MainSteps, 0 idle
    presult    \* process_output: "Ok" or "Err" as returned, "panic", "none" until then

vars == <<fs, fs0, pc, written, stdout, stderr, bundle, files, i, archPos, verdict,
          pkg, rerun, force, r2cOk, remaining, result,
          args, dpc, invoked, child, console, found, exitStatus,
          script, wpos, childPc, pipe, thread, line, printed, ppc, presult>>

dispVars == <<args, dpc, invoked, child, console, found, exitStatus>>
pipeVars == <<script, wpos, childPc, pipe, thread, line, printed, ppc, presult>>
installVars == <<fs, fs0, pc, written, stdout, stderr, bundle, files, i, archPos, verdict,
                 pkg, rerun, force, r2cOk, remaining, result>>

eopkgVars == <<bundle, files, i, archPos, verdict>>
rpmVars == <<pkg, rerun, force, r2cOk, remaining, result>>

\* Command-line words, as the sequences of their characters.
InstallWord == <<"i", "n", "s", "t", "a", "l", "l">>
InstallFlag == <<"-", "-">> \o InstallWord
DebSuffix == <<".", "d", "e", "b">>
EopkgSuffix == <<".", "e", "o", "p", "k", "g">>
ArgWords ==
    {InstallWord,
     <<"a">> \o DebSuffix,
     <<"a">> \o EopkgSuffix,
     <<"a">> \o DebSuffix \o EopkgSuffix,
     <<"a", ".", "r", "p", "m">>}
ArgLists == SeqsUpTo(ArgWords, MaxArgs)

\* The ways a run of the eopkg backend's main ends, and the exit status of
\* each: main returns from every branch, and only a panic of an expect ends
\* the process with another status than 0.
EopkgOutcomes == {"installed", "not_found", "panic"}
EopkgStatus(o) == IF o = "panic" THEN 101 ELSE 0
\* The deb backend is a script outside this program: it succeeds or fails.
DebOutcomes == {"installed", "failed"}
DebStatus(o) == IF o = "installed" THEN 0 ELSE 1

NoChild == [backend |-> "none", outcome |-> "none", status |-> 0]
\* A spawned backend child, and the child once wait has returned its status.
Running(backend) == [backend |-> backend, outcome |-> "running", status |-> -1]
Waited(c, o) ==
    [c EXCEPT !.outcome = o,
              !.status = IF c.backend = "deb" THEN DebStatus(o) ELSE EopkgStatus(o)]

\* The two streams of a child, and the lines it can write: "<FF>" stands for
\* a line whose bytes are not valid UTF-8.
Fds == {"out", "err"}
InvalidLine == "<FF>"
Lines == {"a", "b", InvalidLine}
IsUtf8(l) == l # InvalidLine
Scripts == SeqsUpTo([fd : Fds, line : Lines], MaxLines)
ChildScripts == SeqsUpTo([fd : Fds, line : Lines], MaxChildLines)
NoLines == [fd \in Fds |-> <<>>]
NoThreads == [fd \in Fds |-> "unborn"]
\* No reader holds a line.
NoLine == "<none>"
NoHeld == [fd \in Fds |-> NoLine]

NoBundle == [metadata |-> {}, files |-> <<>>, tarPresent |-> FALSE, archive |-> <<>>]

\* The machine before the first install: /usr, /etc and /tmp are there, and
\* so is the system's /etc/passwd, which no package content equals; nothing
\* of any package is.
PasswdPath == <<"etc", "passwd">>
SystemFile == RegFile(0)
CleanFs ==
    [q \in AllPaths |->
        IF q = PasswdPath THEN SystemFile
        ELSE IF q \in {TargetDir, <<"etc">>, <<"tmp">>} THEN Dir
        ELSE Absent]

\* A member path with a ".." component.
HasParentDir(rel) == \E k \in 1..Len(rel) : rel[k] = ".."

\* ------------------------------------------------------------------ eopkg

Line(m, p) == [msg |-> m, path |-> p]

\* eopkg main: installer::install_package(package_path).
E_Start(b) ==
    /\ pc = "idle"
    /\ bundle' = b
    /\ pc' = "e_meta"
    /\ files' = <<>>
    /\ i' = 0
    /\ archPos' = 0
    /\ verdict' = <<>>
    /\ written' = {}
    /\ stdout' = <<>>
    /\ stderr' = <<>>
    /\ fs0' = fs
    /\ UNCHANGED <<fs, rpmVars, dispVars, pipeVars>>

\* The lines of the three println! of lines 17-19.
MetadataLines ==
    <<Line("Installing package", Root), Line("Description", Root),
      Line("Architecture", Root)>>

\* parse_metadata_xml(...).expect(...) and the three println!, each of which
\* panics when stdout cannot be written: the lines printed before the panic
\* stay printed.
E_ParseMetadata ==
    /\ pc = "e_meta"
    /\ IF bundle.metadata = MetadataFields
       THEN \E n \in 0..Len(MetadataLines) :
              /\ stdout' = stdout \o SubSeq(MetadataLines, 1, n)
              /\ pc' = IF n = Len(MetadataLines) THEN "e_files" ELSE "e_panic"
       ELSE /\ pc' = "e_panic"
            /\ UNCHANGED stdout
    /\ UNCHANGED <<fs0, fs, written, stderr, eopkgVars, rpmVars, dispVars, pipeVars>>

\* from_str::<Files>: every File element with all its children, in document
\* order.  The field File of Files is required: a document without any File
\* element does not parse.
ParseFiles(doc) ==
    [k \in 1..Len(doc) |-> [Path |-> doc[k].Path, Hash |-> doc[k].Hash]]

\* A File element is accepted as soon as it has a Path.
ParseFilesOk_PathOnly(doc) ==
    Len(doc) > 0 /\ \A k \in 1..Len(doc) : "Path" \in doc[k].present
ParseFilesOk(doc) ==
    Len(doc) > 0 /\ \A k \in 1..Len(doc) : doc[k].present = FileFields

\* parse_files_xml(...).expect(...).
E_ParseFiles ==
    /\ pc = "e_files"
    /\ IF ParseFilesOk(bundle.files)
       THEN /\ pc' = "e_open"
            /\ files' = ParseFiles(bundle.files)
            /\ verdict' = [k \in 1..Len(bundle.files) |-> "none"]
       ELSE /\ pc' = "e_panic"
            /\ UNCHANGED <<files, verdict>>
    /\ UNCHANGED <<fs0, fs, written, stdout, stderr, bundle, i, archPos, rpmVars, dispVars, pipeVars>>

AfterEntry(k) == IF k < Len(files) THEN "e_unpack" ELSE "e_end"

\* FsFile::open(&tar_path).expect(...), the decoder and the archive; then the
\* loop's first iteration.
E_OpenArchive ==
    /\ pc = "e_open"
    /\ IF bundle.tarPresent
       THEN /\ pc' = AfterEntry(0)
            /\ i' = IF Len(files) > 0 THEN 1 ELSE 0
            /\ archPos' = 0
       ELSE /\ pc' = "e_panic"
            /\ UNCHANGED <<i, archPos>>
    /\ UNCHANGED <<fs0, fs, written, stdout, stderr, bundle, files, verdict, rpmVars, dispVars, pipeVars>>

\* "continue", or the end of the loop body.
Continue ==
    /\ pc' = AfterEntry(i)
    /\ i' = IF i < Len(files) THEN i + 1 ELSE i

\* Unpacking below dst the members k..last of an archive, as tar does it for
\* each of them: a member whose path has a ".." component is skipped, any
\* other is written below dst, replacing what is there, and a member that
\* cannot be written is an error.  What was written before the error stays.
RECURSIVE UnpackFrom(_, _, _, _, _, _)
UnpackFrom(f, w, dst, members, k, last) ==
    IF k > last THEN [fs |-> f, written |-> w, ok |-> TRUE]
    ELSE IF HasParentDir(members[k].path)
         THEN UnpackFrom(f, w, dst, members, k + 1, last)
    ELSE LET p == Resolve(dst, members[k].path) IN
         IF ~CanWriteFile(f, p) THEN [fs |-> f, written |-> w, ok |-> FALSE]
         ELSE UnpackFrom(WriteFile(f, p, members[k].data),
                         w \cup {p} \cup DirsCreated(f, Parent(p)),
                         dst, members, k + 1, last)

\* Lines 33-36: archive.unpack_in("/"), and on Err the eprintln! and
\* "continue".  tar's Archive has no method of that name (unpack_in is a
\* method of Entry, unpack the one of Archive), so the source fixes of the
\* call only what it says itself: members of the archive are unpacked below
\* /, and the result is Ok or Err.  How many of the members not read yet one
\* call unpacks (all of them, as Archive::unpack; the next, as
\* Entry::unpack_in; none, as on a stream that is at its end or broken) and
\* which result it returns are left open.  eprintln! panics when stderr
\* cannot be written.
E_Unpack ==
    /\ pc = "e_unpack"
    /\ \E last \in archPos..Len(bundle.archive), returned_ok, printed_ok \in BOOLEAN :
         LET r == UnpackFrom(fs, written, Root, bundle.archive, archPos + 1, last) IN
         /\ fs' = r.fs
         /\ written' = r.written
         /\ archPos' = last
         /\ IF r.ok /\ returned_ok
            THEN /\ printed_ok
                 /\ pc' = "e_verify"
                 /\ UNCHANGED <<i, stderr>>
            ELSE IF printed_ok
            THEN /\ stderr' = Append(stderr, Line("Failed to unpack file", files[i].Path))
                 /\ Continue
            ELSE /\ pc' = "e_panic"
                 /\ UNCHANGED <<i, stderr>>
    /\ UNCHANGED <<fs0, stdout, bundle, files, verdict, rpmVars, dispVars, pipeVars>>

\* Lines 39-49: the extracted file is opened and read (a panic when it cannot
\* be), hashed, and the digest compared with the declared one; a mismatch is
\* reported on stderr by an eprintln!, which panics when stderr cannot be
\* written.
E_Verify ==
    /\ pc = "e_verify"
    /\ LET extracted_path == Resolve(Root, files[i].Path) IN
       IF ~IsFile(fs, extracted_path)
       THEN /\ pc' = "e_panic"
            /\ UNCHANGED <<i, stderr, verdict>>
       ELSE LET calculated_hash == Sha1Hex(fs[extracted_path].data) IN
            IF calculated_hash # files[i].Hash
            THEN /\ verdict' = [verdict EXCEPT ![i] = "Mismatch"]
                 /\ \E printed_ok \in BOOLEAN :
                      IF printed_ok
                      THEN /\ stderr' = Append(stderr,
                                               Line("Hash mismatch for file", files[i].Path))
                           /\ Continue
                      ELSE /\ pc' = "e_panic"
                           /\ UNCHANGED <<i, stderr>>
            ELSE /\ verdict' = [verdict EXCEPT ![i] = "Match"]
                 /\ Continue
                 /\ UNCHANGED stderr
    /\ UNCHANGED <<fs0, fs, written, stdout, bundle, files, archPos, rpmVars, dispVars, pipeVars>>

\* println!("Package installed successfully!"), which panics when stdout
\* cannot be written; then install_package and main return.
E_Success ==
    /\ pc = "e_end"
    /\ \E printed_ok \in BOOLEAN :
         IF printed_ok
         THEN /\ pc' = "e_done"
              /\ stdout' = Append(stdout, Line("Package installed successfully!", Root))
         ELSE /\ pc' = "e_panic"
              /\ UNCHANGED stdout
    /\ UNCHANGED <<fs0, fs, written, stderr, eopkgVars, rpmVars, dispVars, pipeVars>>

\* The process ends: after main returns, or by a panic.  Only the filesystem
\* outlives it.
E_Exit ==
    /\ pc \in {"e_done", "e_panic"}
    /\ pc' = "idle"
    /\ written' = {}
    /\ stdout' = <<>>
    /\ stderr' = <<>>
    /\ bundle' = NoBundle
    /\ files' = <<>>
    /\ i' = 0
    /\ archPos' = 0
    /\ verdict' = <<>>
    /\ fs0' = fs
    /\ UNCHANGED <<fs, rpmVars, dispVars, pipeVars>>

Init ==
    /\ fs = CleanFs
    /\ fs0 = CleanFs
    /\ pc = "idle"
    /\ written = {}
    /\ stdout = <<>>
    /\ stderr = <<>>
    /\ bundle = NoBundle
    /\ files = <<>>
    /\ i = 0
    /\ archPos = 0
    /\ verdict = <<>>
    /\ pkg = <<>>
    /\ rerun = FALSE
    /\ force = FALSE
    /\ r2cOk = TRUE
    /\ remaining = {}
    /\ result = "none"
    /\ args = <<>>
    /\ dpc = "idle"
    /\ invoked = <<>>
    /\ child = NoChild
    /\ console = <<>>
    /\ found = "unasked"
    /\ exitStatus = -1
    /\ script = <<>>
    /\ wpos = 0
    /\ childPc = "none"
    /\ pipe = NoLines
    /\ thread = NoThreads
    /\ line = NoHeld
    /\ printed = NoLines
    /\ ppc = 0
    /\ presult = "none"

NextEopkg ==
    \/ \E b \in Bundles : E_Start(b)
    \/ E_ParseMetadata
    \/ E_ParseFiles
    \/ E_OpenArchive
    \/ E_Unpack
    \/ E_Verify
    \/ E_Success
    \/ E_Exit

SpecEopkg == Init /\ [][NextEopkg]_vars


\* ------------------------------------------------------------------ rpm

\* cpio -idmv run in extract_to on the first n members of the payload: each
\* member is created below dst with its leading directories.  A member whose
\* path has a ".." component is refused when the cpio found in PATH guards
\* against it (guard) and is otherwise written where the path resolves; an
\* existing file is left alone when it is not older than the member (keep);
\* an empty directory at the member's path is removed and the file written in
\* its place, a directory with content stays and the member is not extracted.
CpioCanWrite(f, p) ==
    CanCreateDirAll(f, Parent(p)) /\ (IsDir(f, p) => Children(f, p) = {})

RECURSIVE CpioFrom(_, _, _, _, _, _, _, _)
CpioFrom(f, w, dst, members, k, n, guard, keep) ==
    IF k > n THEN [fs |-> f, written |-> w]
    ELSE LET p == Resolve(dst, members[k].path) IN
         IF \/ HasParentDir(members[k].path) /\ guard
            \/ ~CpioCanWrite(f, p)
            \/ IsFile(f, p) /\ p \in keep
         THEN CpioFrom(f, w, dst, members, k + 1, n, guard, keep)
         ELSE CpioFrom(WriteFile(f, p, members[k].data),
                       w \cup {p} \cup DirsCreated(f, Parent(p)),
                       dst, members, k + 1, n, guard, keep)

\* rpm main: install_package(package), with the parsed --force.
R_Start(payload, f) ==
    /\ pc = "idle"
    /\ pc' = "r_extract"
    /\ pkg' = payload
    /\ rerun' = FALSE
    /\ force' = f
    /\ r2cOk' = TRUE
    /\ remaining' = {}
    /\ result' = "none"
    /\ written' = {}
    /\ stdout' = <<>>
    /\ stderr' = <<>>
    /\ fs0' = fs
    /\ UNCHANGED <<fs, eopkgVars, dispVars, pipeVars>>

\* extract_rpm_cpio(rpm_path, extract_dir)?: create_dir_all(extract_to), whose
\* error is returned with nothing spawned, then rpm2cpio piped into cpio.
\* Either child may fail to spawn (spawned = FALSE), rpm2cpio may fail having
\* written only the first n members, or after the whole payload, and cpio may
\* exit with a failure, which it does whenever the stream ends after some of
\* the payload and before its end; a stream that ends before its first byte,
\* rpm2cpio having failed at once, is an empty archive to cpio, which extracts
\* nothing and exits with success.  The stream may also end inside member n + 1, after its header (cut): cpio has
\* created that member by then, leaves it without its data and exits with a
\* failure.  Only cpio's status decides between Ok and Err.
R_Extract ==
    /\ pc = "r_extract"
    /\ LET staged == CreateDirAll(fs, ExtractDir)
           made == DirsCreated(fs, ExtractDir)
       IN
       \E created \in BOOLEAN, spawned \in BOOLEAN :
         IF ~created \/ ~CanCreateDirAll(fs, ExtractDir)
         THEN /\ spawned
              /\ pc' = "r_err"
              /\ result' = "create_extract_dir"
              /\ UNCHANGED <<fs, written, r2cOk>>
         ELSE IF ~spawned
         THEN /\ fs' = staged
              /\ written' = written \cup made
              /\ pc' = "r_err"
              /\ result' = "spawn"
              /\ UNCHANGED r2cOk
         ELSE \E n \in 0..Len(pkg), rpm2cpio_ok \in BOOLEAN, cpio_ok \in BOOLEAN,
                 cut \in BOOLEAN, guard \in BOOLEAN,
                 keep \in SUBSET {q \in {Resolve(ExtractDir, pkg[k].path) : k \in 1..Len(pkg)} :
                                    IsFile(fs, q)} :
                LET r == IF cut /\ n < Len(pkg)
                         THEN CpioFrom(staged, written \cup made, ExtractDir,
                                       [pkg EXCEPT ![n + 1].data = EmptyFile.data],
                                       1, n + 1, guard, keep)
                         ELSE CpioFrom(staged, written \cup made, ExtractDir, pkg, 1, n,
                                       guard, keep)
                IN
                /\ cut => n < Len(pkg) /\ ~cpio_ok
                /\ cpio_ok => n = Len(pkg) \/ (n = 0 /\ ~rpm2cpio_ok)
                /\ guard /\ (\E k \in 1..n : HasParentDir(pkg[k].path)) => ~cpio_ok
                /\ fs' = r.fs
                /\ written' = r.written
                /\ r2cOk' = rpm2cpio_ok
                /\ pc' = IF cpio_ok THEN "r_check" ELSE "r_err"
                /\ result' = IF cpio_ok THEN result ELSE "cpio"
    /\ UNCHANGED <<fs0, stdout, stderr, eopkgVars, dispVars, pipeVars, pkg, rerun, force, remaining>>

\* Lines 44-47: install_dir must exist.
R_CheckInstallDir ==
    /\ pc = "r_check"
    /\ pc' = IF Exists(fs, InstallDir) THEN "r_readdir" ELSE "r_err"
    /\ result' = IF Exists(fs, InstallDir) THEN result ELSE "install_dir"
    /\ UNCHANGED <<fs0, fs, written, stdout, stderr, eopkgVars, dispVars, pipeVars, pkg, rerun, force, r2cOk, remaining>>

\* fs::read_dir(&install_dir)?: the direct children of install_dir, or an
\* error.
R_ReadDir ==
    /\ pc = "r_readdir"
    /\ \E io_ok \in BOOLEAN :
         IF io_ok /\ IsDir(fs, InstallDir)
         THEN /\ remaining' = Children(fs, InstallDir)
              /\ pc' = "r_entry"
              /\ UNCHANGED result
         ELSE /\ pc' = "r_err"
              /\ result' = "read_dir"
              /\ UNCHANGED remaining
    /\ UNCHANGED <<fs0, fs, written, stdout, stderr, eopkgVars, dispVars, pipeVars, pkg, rerun, force, r2cOk>>

\* target_dir.join(entry_path.strip_prefix(&install_dir)).
TargetPath(entry_path) ==
    TargetDir \o SubSeq(entry_path, Len(InstallDir) + 1, Len(entry_path))

\* Line 56, target_path.exists(): the entry is skipped, whatever --force says.
SkipEntry(f, target_path) == Exists(f, target_path)

\* One iteration of the loop of lines 50-72, on any entry not yet visited
\* (read_dir's order is the filesystem's): an entry whose target exists is
\* reported and skipped; a directory is created at the target, empty; a file
\* is copied.  The read of the entry, create_dir_all or copy may fail
\* (fault), and the error is returned; fs::copy fails either before it has
\* created the target or after, and then leaves it cut short; eprintln!
\* panics when stderr cannot be written.
R_Entry ==
    /\ pc = "r_entry"
    /\ remaining # {}
    /\ \E entry_path \in remaining, fault \in {"none", "entry", "create_dir", "copy_open", "copy_write", "print"} :
         LET target_path == TargetPath(entry_path) IN
         /\ remaining' = remaining \ {entry_path}
         /\ IF fault = "entry"
            THEN /\ pc' = "r_err"
                 /\ result' = "entry"
                 /\ UNCHANGED <<fs, written, stderr>>
            ELSE IF SkipEntry(fs, target_path)
            THEN IF fault = "print"
                 THEN /\ pc' = "r_panic"
                      /\ result' = "panic"
                      /\ UNCHANGED <<fs, written, stderr>>
                 ELSE /\ stderr' = Append(stderr, Line("already exists, skipped", target_path))
                      /\ UNCHANGED <<fs, written, pc, result>>
            ELSE IF IsDir(fs, entry_path)
            THEN IF fault = "create_dir" \/ ~CanCreateDirAll(fs, target_path)
                 THEN /\ pc' = "r_err"
                      /\ result' = "create_dir"
                      /\ UNCHANGED <<fs, written, stderr>>
                 ELSE /\ fs' = CreateDirAll(fs, target_path)
                      /\ written' = written \cup DirsCreated(fs, target_path)
                      /\ UNCHANGED <<pc, result, stderr>>
            ELSE IF fault = "create_dir" \/ ~CanCreateDirAll(fs, Parent(target_path))
                 THEN /\ pc' = "r_err"
                      /\ result' = "create_dir"
                      /\ UNCHANGED <<fs, written, stderr>>
                 ELSE IF fault = "copy_open"
                 THEN /\ fs' = CreateDirAll(fs, Parent(target_path))
                      /\ written' = written \cup DirsCreated(fs, Parent(target_path))
                      /\ pc' = "r_err"
                      /\ result' = "copy"
                      /\ UNCHANGED stderr
                 ELSE IF fault = "copy_write"
                 THEN /\ fs' = [CreateDirAll(fs, Parent(target_path))
                                    EXCEPT ![target_path] = EmptyFile]
                      /\ written' = written \cup {target_path}
                                            \cup DirsCreated(fs, Parent(target_path))
                      /\ pc' = "r_err"
                      /\ result' = "copy"
                      /\ UNCHANGED stderr
                 ELSE /\ fs' = WriteFile(fs, target_path, fs[entry_path].data)
                      /\ written' = written \cup {target_path}
                                            \cup DirsCreated(fs, Parent(target_path))
                      /\ UNCHANGED <<pc, result, stderr>>
    /\ UNCHANGED <<fs0, stdout, eopkgVars, dispVars, pipeVars, pkg, rerun, force, r2cOk>>

\* fs::remove_dir_all(extract_dir)? and the success message, after the loop.
\* When the removal fails, what it deleted before the error stays deleted;
\* println! panics when stdout cannot be written.
R_Cleanup ==
    /\ pc = "r_entry"
    /\ remaining = {}
    /\ \E io_ok \in BOOLEAN, printed_ok \in BOOLEAN :
         IF io_ok /\ printed_ok
         THEN /\ fs' = RemoveDirAll(fs, ExtractDir)
              /\ stdout' = Append(stdout, Line("installed", TargetDir))
              /\ pc' = "r_ok"
              /\ result' = "Ok"
         ELSE IF io_ok
         THEN /\ fs' = RemoveDirAll(fs, ExtractDir)
              /\ pc' = "r_panic"
              /\ result' = "panic"
              /\ UNCHANGED stdout
         ELSE /\ printed_ok
              /\ fs' \in PartlyRemoved(fs, ExtractDir)
              /\ pc' = "r_err"
              /\ result' = "remove_dir"
              /\ UNCHANGED stdout
    /\ UNCHANGED <<fs0, written, stderr, eopkgVars, dispVars, pipeVars, pkg, rerun, force, r2cOk, remaining>>

\* The install command is run again on the package it has just installed with
\* success, with or without --force.
R_Again(f) ==
    /\ pc = "r_ok"
    /\ ~rerun
    /\ pc' = "r_extract"
    /\ rerun' = TRUE
    /\ force' = f
    /\ r2cOk' = TRUE
    /\ remaining' = {}
    /\ result' = "none"
    /\ written' = {}
    /\ stdout' = <<>>
    /\ stderr' = <<>>
    /\ fs0' = fs
    /\ UNCHANGED <<fs, pkg, eopkgVars, dispVars, pipeVars>>

\* main: the process ends, with status 1 after an Err, by a panic with 101.
R_Exit ==
    /\ pc \in {"r_ok", "r_err", "r_panic"}
    /\ pc' = "idle"
    /\ written' = {}
    /\ stdout' = <<>>
    /\ stderr' = <<>>
    /\ pkg' = <<>>
    /\ rerun' = FALSE
    /\ force' = FALSE
    /\ r2cOk' = TRUE
    /\ remaining' = {}
    /\ result' = "none"
    /\ fs0' = fs
    /\ UNCHANGED <<fs, eopkgVars, dispVars, pipeVars>>

NextRpm ==
    \/ \E payload \in Payloads, f \in BOOLEAN : R_Start(payload, f)
    \/ R_Extract
    \/ R_CheckInstallDir
    \/ R_ReadDir
    \/ R_Entry
    \/ R_Cleanup
    \/ \E f \in BOOLEAN : R_Again(f)
    \/ R_Exit

SpecRpm == Init /\ [][NextRpm]_vars

\* Both backends on one machine, one operation at a time.
Next == NextEopkg \/ NextRpm

Spec == Init /\ [][Next]_vars


\* ------------------------------------------------------------------ process_output

\* The steps of process_output's own thread, in order: each reader thread is
\* spawned, then each is joined, then the child is waited for.
MainSteps ==
    <<[op |-> "spawn", fd |-> "out"],
      [op |-> "spawn", fd |-> "err"],
      [op |-> "join", fd |-> "out"],
      [op |-> "join", fd |-> "err"],
      [op |-> "wait", fd |-> "none"]>>

Returned == Len(MainSteps) + 1

\* Command::spawn with both streams piped, of a child that will write the
\* lines of s, and the call of process_output on it.
SpawnPiped(s) ==
    /\ script' = s
    /\ wpos' = 0
    /\ childPc' = "running"
    /\ pipe' = NoLines
    /\ thread' = NoThreads
    /\ line' = NoHeld
    /\ printed' = NoLines
    /\ ppc' = 1
    /\ presult' = "none"

\* process_output has returned, or has ended the process: nothing of the
\* call is left.
CallOver ==
    /\ script' = <<>>
    /\ wpos' = 0
    /\ childPc' = "none"
    /\ pipe' = NoLines
    /\ thread' = NoThreads
    /\ line' = NoHeld
    /\ printed' = NoLines
    /\ ppc' = 0
    /\ presult' = "none"

\* process_output is called on its own, with a child that was spawned with
\* both streams piped.
P_Start(s) ==
    /\ ppc = 0
    /\ SpawnPiped(s)
    /\ UNCHANGED <<installVars, dispVars>>

\* The child writes its next line.  The pipe of Stdio::piped() buffers what
\* the reader has not taken yet (64 KiB on Linux, every line of a script and
\* more), so the write does not wait for the reader.  A write to a pipe whose
\* reader thread has panicked, and so dropped the read end, fails, and the
\* child ends there.
P_ChildWrite ==
    /\ childPc = "running"
    /\ wpos < Len(script)
    /\ LET e == script[wpos + 1] IN
        IF thread[e.fd] = "panicked"
        THEN /\ childPc' = "exited"
             /\ UNCHANGED <<pipe, wpos>>
        ELSE /\ pipe' = [pipe EXCEPT ![e.fd] = Append(@, e.line)]
             /\ wpos' = wpos + 1
             /\ UNCHANGED childPc
    /\ UNCHANGED <<script, thread, line, printed, ppc, presult, installVars, dispVars>>

\* The child, having written everything, exits: the write ends of both pipes
\* are closed.
P_ChildExit ==
    /\ childPc = "running"
    /\ wpos = Len(script)
    /\ childPc' = "exited"
    /\ UNCHANGED <<script, wpos, pipe, thread, line, printed, ppc, presult, installVars, dispVars>>

\* thread::spawn of the reader of one stream.  When the system cannot create
\* the thread, thread::spawn panics in main and the process ends, no join and
\* no wait reached.
P_Spawn(fd) ==
    /\ ppc \in 1..Len(MainSteps)
    /\ MainSteps[ppc] = [op |-> "spawn", fd |-> fd]
    /\ \E spawned \in BOOLEAN :
         IF spawned
         THEN /\ thread' = [thread EXCEPT ![fd] = "reading"]
              /\ ppc' = ppc + 1
              /\ UNCHANGED presult
         ELSE /\ ppc' = Returned
              /\ presult' = "panic"
              /\ UNCHANGED thread
    /\ UNCHANGED <<script, wpos, childPc, pipe, line, printed, installVars, dispVars>>

\* The head of a reader's loop, lines 71-72 and 82-83: lines() takes the next
\* line from the pipe; a line that is Ok, that is valid UTF-8, is held for
\* the print, any other is dropped; at end of file the loop and the thread
\* end.  The read blocks while the pipe is empty and its write end open.
P_Read(fd) ==
    /\ thread[fd] = "reading"
    /\ line[fd] = NoLine
    /\ IF pipe[fd] # <<>>
       THEN /\ pipe' = [pipe EXCEPT ![fd] = Tail(@)]
            /\ line' = [line EXCEPT ![fd] = IF IsUtf8(Head(pipe[fd]))
                                            THEN Head(pipe[fd]) ELSE NoLine]
            /\ UNCHANGED thread
       ELSE /\ childPc = "exited"
            /\ thread' = [thread EXCEPT ![fd] = "done"]
            /\ UNCHANGED <<pipe, line>>
    /\ UNCHANGED <<script, wpos, childPc, printed, ppc, presult, installVars, dispVars>>

\* The body of a reader's loop, lines 73 and 84: println! or eprintln! of the
\* line held.  The child and the other reader run between the read and the
\* print.  When the dispatcher's own stream cannot be written, the print
\* panics and the thread ends by it.
P_Print(fd) ==
    /\ thread[fd] = "reading"
    /\ line[fd] # NoLine
    /\ line' = [line EXCEPT ![fd] = NoLine]
    /\ \E printed_ok \in BOOLEAN :
         IF printed_ok
         THEN /\ printed' = [printed EXCEPT ![fd] = Append(@, line[fd])]
              /\ UNCHANGED thread
         ELSE /\ thread' = [thread EXCEPT ![fd] = "panicked"]
              /\ UNCHANGED printed
    /\ UNCHANGED <<script, wpos, childPc, pipe, ppc, presult, installVars, dispVars>>

\* join().unwrap() of the reader of one stream: blocks until the thread has
\* ended; when it ended by a panic, unwrap panics in main and the process
\* ends, the other join and the wait not reached.
P_Join(fd) ==
    /\ ppc \in 1..Len(MainSteps)
    /\ MainSteps[ppc] = [op |-> "join", fd |-> fd]
    /\ thread[fd] \in {"done", "panicked"}
    /\ IF thread[fd] = "done"
       THEN /\ ppc' = ppc + 1
            /\ UNCHANGED presult
       ELSE /\ ppc' = Returned
            /\ presult' = "panic"
    /\ UNCHANGED <<script, wpos, childPc, pipe, thread, line, printed, installVars, dispVars>>

\* command.wait()?: blocks until the child has exited and reaps it; Ok is
\* returned whatever the exit status, Err when wait itself fails.
P_Wait ==
    /\ ppc \in 1..Len(MainSteps)
    /\ MainSteps[ppc].op = "wait"
    /\ childPc = "exited"
    /\ \E waited \in BOOLEAN :
        /\ presult' = IF waited THEN "Ok" ELSE "Err"
        /\ childPc' = IF waited THEN "reaped" ELSE childPc
    /\ ppc' = ppc + 1
    /\ UNCHANGED <<script, wpos, pipe, thread, line, printed, installVars, dispVars>>

\* The caller goes on after process_output returned.
P_Exit ==
    /\ ppc = Returned
    /\ CallOver
    /\ UNCHANGED <<installVars, dispVars>>

NextPipe ==
    \/ \E s \in Scripts : P_Start(s)
    \/ P_ChildWrite
    \/ P_ChildExit
    \/ \E fd \in Fds : P_Spawn(fd)
    \/ \E fd \in Fds : P_Read(fd)
    \/ \E fd \in Fds : P_Print(fd)
    \/ \E fd \in Fds : P_Join(fd)
    \/ P_Wait
    \/ P_Exit

SpecPipe == Init /\ [][NextPipe]_vars


\* ------------------------------------------------------------------ dispatcher

\* str::ends_with.
EndsWith(s, suffix) ==
    /\ Len(s) >= Len(suffix)
    /\ SubSeq(s, Len(s) - Len(suffix) + 1, Len(s)) = suffix

\* args.iter().enumerate().find(|arg| arg == "install"): the position of the
\* first argument equal to "install", counted from 1, or 0 for None.
RECURSIVE FindFrom(_, _)
FindFrom(a, k) ==
    IF k > Len(a) THEN 0
    ELSE IF a[k] = InstallWord THEN k
    ELSE FindFrom(a, k + 1)

\* The position of the last argument equal to "install" instead.
FindInstall_Last(a) ==
    IF \E k \in 1..Len(a) : a[k] = InstallWord
    THEN CHOOSE k \in 1..Len(a) :
            a[k] = InstallWord /\ \A j \in (k + 1)..Len(a) : a[j] # InstallWord
    ELSE 0
FindInstall(a) == FindFrom(a, 1)

\* The dispatcher is run with the arguments a.
D_Start(a) ==
    /\ dpc = "idle"
    /\ args' = a
    /\ dpc' = "main"
    /\ invoked' = <<>>
    /\ child' = NoChild
    /\ console' = <<>>
    /\ found' = "unasked"
    /\ exitStatus' = -1
    /\ UNCHANGED <<installVars, pipeVars>>

\* println! and eprintln! of main's own thread: the message is printed, or,
\* when the stream cannot be written (a pipe whose reader is gone), the macro
\* panics and the process ends with status 101.  Otherwise main goes on at
\* statement next, with status st.
PrintOr101(message, next, st) ==
    \E printed_ok \in BOOLEAN :
        IF printed_ok
        THEN /\ console' = Append(console, message)
             /\ dpc' = next
             /\ exitStatus' = st
        ELSE /\ dpc' = "exit"
             /\ exitStatus' = 101
             /\ UNCHANGED console

\* main, lines 9-32: without "install" it returns Ok at once; with "install"
\* as the last argument, or a package of another suffix, it prints an error
\* and returns Ok; otherwise it calls the handler of the package's suffix.
D_Main ==
    /\ dpc = "main"
    /\ LET p == FindInstall(args) IN
        IF p = 0
        THEN /\ dpc' = "exit"
             /\ exitStatus' = 0
             /\ UNCHANGED console
        ELSE IF p >= Len(args)
        THEN PrintOr101("package argument missing", "exit", 0)
        ELSE IF EndsWith(args[p + 1], DebSuffix)
        THEN /\ dpc' = "handle_deb"
             /\ UNCHANGED <<console, exitStatus>>
        ELSE IF EndsWith(args[p + 1], EopkgSuffix)
        THEN /\ dpc' = "handle_eopkg"
             /\ UNCHANGED <<console, exitStatus>>
        ELSE PrintOr101("file type not supported", "exit", 0)
    /\ UNCHANGED <<args, invoked, child, found, installVars, pipeVars>>

\* handle_deb: python3 deb/main.py is spawned with all the arguments, its
\* streams piped, and process_output called on it; a spawn error is returned
\* by main, which ends the process with status 1.
D_HandleDeb ==
    /\ dpc = "handle_deb"
    /\ \E spawned \in BOOLEAN, s \in ChildScripts :
        /\ invoked' = Append(invoked, [backend |-> "deb", argv |-> args, spawned |-> spawned])
        /\ IF spawned
           THEN /\ child' = Running("deb")
                /\ dpc' = "output"
                /\ SpawnPiped(s)
                /\ UNCHANGED exitStatus
           ELSE /\ s = <<>>
                /\ dpc' = "exit"
                /\ exitStatus' = 1
                /\ UNCHANGED <<child, pipeVars>>
    /\ UNCHANGED <<args, console, found, installVars>>

\* handle_eopkg: when which does not find eopkg/eopkginst an error is printed
\* and Ok returned; otherwise eopkginst --install <package> is spawned, its
\* streams piped, and process_output called on it.
D_HandleEopkg ==
    /\ dpc = "handle_eopkg"
    /\ \E which_ok \in BOOLEAN, printed_ok \in BOOLEAN, spawned \in BOOLEAN,
          s \in ChildScripts :
        /\ found' = IF which_ok THEN "yes" ELSE "no"
        /\ IF ~which_ok
           THEN /\ PrintOr101("eopkginst not found in PATH", "exit", 0)
                /\ printed_ok /\ spawned /\ s = <<>>
                /\ UNCHANGED <<invoked, child, pipeVars>>
           ELSE IF ~printed_ok
           THEN /\ spawned /\ s = <<>>
                /\ dpc' = "exit"
                /\ exitStatus' = 101
                /\ UNCHANGED <<console, invoked, child, pipeVars>>
           ELSE /\ console' = Append(console, "installing .eopkg package")
                /\ invoked' = Append(invoked,
                       [backend |-> "eopkg",
                        argv |-> <<InstallFlag, args[FindInstall(args) + 1]>>,
                        spawned |-> spawned])
                /\ IF spawned
                   THEN /\ child' = Running("eopkg")
                        /\ dpc' = "output"
                        /\ SpawnPiped(s)
                        /\ UNCHANGED exitStatus
                   ELSE /\ s = <<>>
                        /\ dpc' = "exit"
                        /\ exitStatus' = 1
                        /\ UNCHANGED <<child, pipeVars>>
    /\ UNCHANGED <<args, installVars>>

\* process_output(child)?; Ok(()) in the handler, and the handler's ? in
\* main: process_output returns Ok whatever the exit status wait got from the
\* child, and main then returns Ok; an error of wait is returned, status 1;
\* the panic of join().unwrap() ends the process with status 101.
D_ProcessOutput ==
    /\ dpc = "output"
    /\ ppc = Returned
    /\ exitStatus' = IF presult = "Ok" THEN 0 ELSE IF presult = "Err" THEN 1 ELSE 101
    /\ IF presult = "Ok"
       THEN \E o \in IF child.backend = "deb" THEN DebOutcomes ELSE EopkgOutcomes :
               child' = Waited(child, o)
       ELSE UNCHANGED child
    /\ dpc' = "exit"
    /\ CallOver
    /\ UNCHANGED <<args, invoked, console, found, installVars>>

\* The dispatcher's process has ended.
D_Exit ==
    /\ dpc = "exit"
    /\ dpc' = "idle"
    /\ args' = <<>>
    /\ invoked' = <<>>
    /\ child' = NoChild
    /\ console' = <<>>
    /\ found' = "unasked"
    /\ exitStatus' = -1
    /\ UNCHANGED <<installVars, pipeVars>>

NextDispatch ==
    \/ \E a \in ArgLists : D_Start(a)
    \/ D_Main
    \/ D_HandleDeb
    \/ D_HandleEopkg
    \/ P_ChildWrite
    \/ P_ChildExit
    \/ \E fd \in Fds : P_Spawn(fd)
    \/ \E fd \in Fds : P_Read(fd)
    \/ \E fd \in Fds : P_Print(fd)
    \/ \E fd \in Fds : P_Join(fd)
    \/ P_Wait
    \/ D_ProcessOutput
    \/ D_Exit

SpecDispatch == Init /\ [][NextDispatch]_vars


\* ------------------------------------------------------------------ claims

\* The path a files.xml entry is installed at.
EntryTarget(k) == Resolve(Root, files[k].Path)

UnderTarget(p) == IsPrefix(TargetDir, p)

\* The payload members an rpm package installs: those below usr/.
Installable(m) == ~HasParentDir(m.path) /\ IsPrefix(TargetDir, m.path)

\* C1: in the eopkg install, a file of the manifest is in the target root
\* only once its entry's verdict is Match: no state of an install that has
\* not panicked has an entry's file written by the operation while the
\* entry's verdict is missing or Mismatch.
C1_WrittenOnlyAfterMatch ==
    pc # "e_panic" =>
        \A k \in 1..Len(files) : EntryTarget(k) \in written => verdict[k] = "Match"

\* C2: when the content of an entry was found to differ from what its
\* declared hash describes, the install ends in failure: no install with
\* such an entry reaches the success message.
C2_MismatchFailsWithoutWrites ==
    (\E k \in 1..Len(files) : verdict[k] = "Mismatch") => pc # "e_done"

\* C8: in a run that reaches the success message, every entry of the file
\* list has a verdict: its file was read, hashed and compared.
C8_EveryEntryVerified ==
    pc = "e_done" => \A k \in 1..Len(files) : verdict[k] \in {"Match", "Mismatch"}

\* C3: without force, when the target path of an entry of the package exists
\* before the install, the operation returns an error and the target root is
\* as it was before: nothing is created while other entries are skipped.
C3_ConflictFailsWithoutWrites ==
    (/\ pc \in {"r_ok", "r_err"}
     /\ ~force
     /\ \A k \in 1..Len(pkg) : ~HasParentDir(pkg[k].path)
     /\ \E k \in 1..Len(pkg) :
            Installable(pkg[k]) /\ Exists(fs0, Resolve(Root, pkg[k].path)))
        => (/\ pc = "r_err"
            /\ \A q \in AllPaths : UnderTarget(q) => fs[q] = fs0[q])

\* C4: when the rpm install returns the error of a failed read of an entry,
\* directory creation or copy, none of the paths it created in the target
\* root is left there.
C4_ErrorLeavesNothingCreated ==
    (pc = "r_err" /\ result \in {"entry", "create_dir", "copy"})
        => \A q \in written : UnderTarget(q) => ~Exists(fs, q)

\* C5: an install that created its staging directory has deleted it when it
\* returns, with success or with an error.
C5_StagingDeletedOnReturn ==
    (/\ pc \in {"r_ok", "r_err"}
     /\ ExtractDir \in written
     /\ result \in {"Ok", "spawn", "cpio", "install_dir", "read_dir", "entry",
                     "create_dir", "copy"})
        => ~Exists(fs, ExtractDir)

\* C6: when an install starts to extract, its staging area holds nothing of
\* an earlier install.
C6_StagingEmptyAtExtraction ==
    pc = "r_extract" => Children(fs, ExtractDir) = {}

\* C7: after a successful rpm install of a completely extracted package,
\* every file the package carries below usr/, at any depth, is a file of the
\* target with the package's content.
C7_InstalledMatchesManifest ==
    (pc = "r_ok" /\ r2cOk) =>
        \A k \in 1..Len(pkg) :
            Installable(pkg[k]) =>
                /\ IsFile(fs, Resolve(Root, pkg[k].path))
                /\ fs[Resolve(Root, pkg[k].path)].data = pkg[k].data

\* C9: a package with a member whose path leaves the extraction root is
\* refused: its install does not return Ok, and writes nothing outside its
\* staging directory.
C9_TraversalRejected ==
    (\E k \in 1..Len(pkg) : HasParentDir(pkg[k].path))
        => /\ pc # "r_ok"
           /\ \A q \in AllPaths :
                  ~IsPrefix(ExtractDir, q) /\ q \notin Ancestors(ExtractDir)
                      => fs[q] = fs0[q]

\* C10: after a successful rpm install, into a clean filesystem, of a wholly
\* extracted package with no member that leaves the staging directory, the
\* files the operation created below the target directory are exactly the
\* files the package lists below usr/.
C10_OnlyManifestPathsWritten ==
    (/\ pc = "r_ok"
     /\ ~rerun
     /\ r2cOk
     /\ fs0 = CleanFs
     /\ \A k \in 1..Len(pkg) : ~HasParentDir(pkg[k].path))
        => {q \in written : UnderTarget(q) /\ IsFile(fs, q)}
               = {Resolve(Root, pkg[k].path) : k \in {j \in 1..Len(pkg) : Installable(pkg[j])}}

\* The paths the package lists, in the target root.
ListedPaths == {Resolve(Root, pkg[k].path) : k \in 1..Len(pkg)}

\* C11: when the rpm install command is repeated with force on the package it
\* has just installed with success, no member of the package leaves the
\* staging directory and rpm2cpio does not fail in the second install, then
\* once the second install has ended every path the package lists is in the
\* target as the first install left it, and the second install has not failed
\* on what the first one put there: it returned Ok, or the error of a child
\* process or of a filesystem call of its own that failed, never that of a
\* missing install directory, of a directory it could not create or of a copy.
C11_ForcedReinstallIdempotent ==
    (/\ rerun
     /\ force
     /\ r2cOk
     /\ pc \in {"r_ok", "r_err", "r_panic"}
     /\ \A k \in 1..Len(pkg) : ~HasParentDir(pkg[k].path))
        => /\ \A q \in ListedPaths : fs[q] = fs0[q]
           /\ result \notin {"install_dir", "create_dir", "copy"}

\* C12: a run of the dispatcher asked to install ends with exit status 0 only
\* when a backend was started and installed the package: in every other
\* outcome the status is not 0.
C12_ExitZeroOnlyOnSuccess ==
    (dpc = "exit" /\ FindInstall(args) # 0 /\ exitStatus = 0)
        => child.outcome = "installed"

\* The command line has an argument after its first "install", and that
\* argument is w.
PackageArgIs(w) ==
    \E p \in 1..(Len(args) - 1) :
        /\ args[p] = InstallWord
        /\ \A q \in 1..(p - 1) : args[q] # InstallWord
        /\ args[p + 1] = w

\* The word w is some word followed by suffix.
HasSuffix(w, suffix) == \E n \in 0..Len(w) : SubSeq(w, n + 1, Len(w)) = suffix

PackageArgEndsWith(suffix) == \E w \in ArgWords : PackageArgIs(w) /\ HasSuffix(w, suffix)

\* main called Command::spawn for the backend; the backend was started, the
\* spawn having succeeded.
Attempted(backend) == \E k \in 1..Len(invoked) : invoked[k].backend = backend
Started(backend) ==
    \E k \in 1..Len(invoked) : invoked[k].backend = backend /\ invoked[k].spawned

\* C13 as stated: at most one backend is started, the deb backend if and
\* only if the argument after the first "install" ends with .deb, the eopkg
\* backend if and only if it ends with .eopkg and eopkginst was found; with
\* any other argument, or none, no backend is started.
C13_StartedIffSuffix ==
    dpc = "exit" =>
        /\ Len(invoked) <= 1
        /\ Started("deb") <=> PackageArgEndsWith(DebSuffix)
        /\ Started("eopkg") <=> (PackageArgEndsWith(EopkgSuffix) /\ found = "yes")

\* C13: main calls spawn for at most one backend command, and for which
\* depends only on the argument after the first "install": for the deb
\* backend if and only if that argument ends with .deb; for the eopkg
\* backend, given --install and the argument itself, if and only if it ends
\* with .eopkg, eopkginst was found and the announcement of line 53 was
\* printed; with any other argument, or none, for no backend.  The backend
\* is started if and only if that spawn succeeds: when it fails, main ends
\* with status 1 and no child.
C13_OneBackendBySuffix ==
    /\ Len(invoked) <= 1
    /\ Attempted("deb") => PackageArgEndsWith(DebSuffix)
    /\ Attempted("eopkg") =>
            /\ PackageArgEndsWith(EopkgSuffix)
            /\ PackageArgIs(invoked[1].argv[2])
            /\ invoked[1].argv[1] = InstallFlag
    /\ \A b \in {"deb", "eopkg"} : Started(b) <=> child.backend = b
    /\ dpc = "exit" =>
            /\ PackageArgEndsWith(DebSuffix) <=> Attempted("deb")
            /\ (/\ PackageArgEndsWith(EopkgSuffix)
                /\ found = "yes"
                /\ console = <<"installing .eopkg package">>) <=> Attempted("eopkg")
            /\ \A k \in 1..Len(invoked) :
                    ~invoked[k].spawned => exitStatus = 1 /\ child = NoChild

\* The run `a.rpm install a.deb.eopkg`, say, has ended with the eopkg backend
\* started on a package whose name also holds .deb, "install" not being the
\* first argument.
C13_Witness ==
    /\ dpc = "exit"
    /\ Len(invoked) = 1
    /\ invoked[1].backend = "eopkg"
    /\ invoked[1].spawned
    /\ child.backend = "eopkg"
    /\ invoked[1].argv[2] = <<"a">> \o DebSuffix \o EopkgSuffix
    /\ args[1] # InstallWord

\* C14: when the extraction of an rpm package has failed, by its rpm2cpio or
\* its cpio not starting or not exiting with success, the install returns an
\* error and every path below the target directory is as it was before; the
\* package has no member that leaves the staging directory.
C14_ExtractionFailureAborts ==
    (/\ pc \in {"r_ok", "r_err"}
     /\ ~r2cOk \/ result \in {"spawn", "cpio"}
     /\ \A k \in 1..Len(pkg) : ~HasParentDir(pkg[k].path))
        => /\ pc = "r_err"
           /\ \A q \in AllPaths : UnderTarget(q) => fs[q] = fs0[q]

\* The bundle of the running eopkg install has a metadata.xml without one of
\* its required elements, or a files.xml without a File element or with a
\* File element that lacks one of its own.
IncompleteDocs ==
    /\ pc \in {"e_meta", "e_files", "e_open", "e_unpack", "e_verify", "e_end",
               "e_done", "e_panic"}
    /\ \/ bundle.metadata # MetadataFields
       \/ Len(bundle.files) = 0
       \/ \E k \in 1..Len(bundle.files) : bundle.files[k].present # FileFields

\* C15: when metadata.xml lacks Name, or an entry of files.xml lacks Path,
\* Hash or another required element, the install stops at the parse: the
\* archive is never opened, no entry is unpacked or hashed, and the
\* filesystem stays as it was; with a defective metadata.xml, files.xml is
\* not even parsed.
C15_ParseFailureStopsInstall ==
    IncompleteDocs =>
        /\ pc \in {"e_meta", "e_files", "e_panic"}
        /\ bundle.metadata # MetadataFields => pc \in {"e_meta", "e_panic"}
        /\ files = <<>>
        /\ archPos = 0
        /\ i = 0
        /\ verdict = <<>>
        /\ stderr = <<>>
        /\ written = {}
        /\ fs = fs0

\* The install of a bundle whose files.xml has an entry without Hash, and
\* whose archive is there and has members, has ended in the panic of expect.
C15_Witness ==
    /\ pc = "e_panic"
    /\ bundle.metadata = MetadataFields
    /\ \E k \in 1..Len(bundle.files) : "Hash" \notin bundle.files[k].present
    /\ bundle.tarPresent
    /\ Len(bundle.archive) > 0

\* C16: after a forced rpm install that returned Ok, with the payload wholly
\* extracted into a fresh staging directory, a file of the package whose
\* target path was a file before the install holds the package's content.
C16_ForceOverwritesExisting ==
    (/\ pc = "r_ok"
     /\ force
     /\ r2cOk
     /\ ~Exists(fs0, ExtractDir)
     /\ \A k \in 1..Len(pkg) : ~HasParentDir(pkg[k].path))
        => \A k \in 1..Len(pkg) :
               IsFile(fs0, Resolve(Root, pkg[k].path))
                   => fs[Resolve(Root, pkg[k].path)] = RegFile(pkg[k].data)

\* C18: extract_rpm_cpio returns Ok only when rpm2cpio exited with success
\* too: the install gets past the extraction, to the check of install_dir and
\* the copy loop, only then.
C18_Rpm2cpioFailureIsAnError ==
    pc \in {"r_check", "r_readdir", "r_entry", "r_ok"} => r2cOk

\* C19: when the rpm install_package returns, with Ok or with an error, every
\* target path that existed before the operation and that the copy loop found
\* existing for a direct child of the staged usr/ is as it was before the
\* operation, with everything beneath it.
C19_ExistingTargetsUntouched ==
    pc \in {"r_ok", "r_err"} =>
        \A k \in 1..Len(stderr) :
            (stderr[k].msg = "already exists, skipped" /\ Exists(fs0, stderr[k].path))
                => \A q \in AllPaths : IsPrefix(stderr[k].path, q) => fs[q] = fs0[q]

\* The lines the child has written to a stream so far, in order.
WrittenTo(fd) ==
    LET w == SelectSeq(SubSeq(script, 1, wpos), LAMBDA e : e.fd = fd)
    IN  [k \in 1..Len(w) |-> w[k].line]

\* C17: when process_output has returned, every line the child wrote to its
\* stdout has been printed, in the order written, and likewise every line of
\* its stderr; both readers have ended and the child has exited.
C17_EveryLinePrinted ==
    (ppc = Returned /\ presult = "Ok") =>
        /\ \A fd \in Fds : printed[fd] = WrittenTo(fd)
        /\ \A fd \in Fds : thread[fd] = "done"
        /\ childPc \in {"exited", "reaped"}

====
